---- MODULE Spec2Model ----
(***************************************************************************)
(* Model of api.py: a FastAPI facade over yt-dlp.  Strings (paths, file    *)
(* names, URLs) are sequences of one-character strings, so that            *)
(* str.startswith, str.endswith, os.path.splitext, os.path.basename and    *)
(* os.path.join are computed the way Python computes them.                 *)
(***************************************************************************)
EXTENDS Integers, Sequences, FiniteSets, TLC

\* Number of HTTP requests in flight in one run of the model.
MaxReq == 2

Req == 1..MaxReq

(***************************************************************************)
(* String helpers                                                          *)
(***************************************************************************)
\* str.startswith
StartsWith(s, p) == Len(p) <= Len(s) /\ SubSeq(s, 1, Len(p)) = p

\* str.endswith
EndsWith(s, x) == Len(x) <= Len(s) /\ SubSeq(s, Len(s) - Len(x) + 1, Len(s)) = x

\* str.rfind, 1-based, 0 when the character does not occur
RFind(s, c) ==
    LET hits == {i \in 1..Len(s) : s[i] = c}
    IN  IF hits = {} THEN 0 ELSE CHOOSE i \in hits : \A j \in hits : j <= i

\* os.path.basename (posixpath)
basename(p) == SubSeq(p, RFind(p, "/") + 1, Len(p))

\* os.path.splitext(p)[0] (posixpath): the extension starts at the last dot of
\* the last component, unless that component has only dots before it.
splitext_root(p) ==
    LET sep == RFind(p, "/")
        dot == RFind(p, ".")
    IN  IF dot > sep /\ \E k \in (sep + 1)..(dot - 1) : p[k] # "."
        THEN SubSeq(p, 1, dot - 1)
        ELSE p

\* os.path.join(a, b) (posixpath)
join(a, b) ==
    IF StartsWith(b, <<"/">>) THEN b
    ELSE IF a = <<>> \/ EndsWith(a, <<"/">>) THEN a \o b
    ELSE a \o <<"/">> \o b

\* str.split("/")
RECURSIVE Split(_)
Split(p) ==
    LET hits == {i \in 1..Len(p) : p[i] = "/"}
    IN  IF hits = {} THEN <<p>>
        ELSE LET i == CHOOSE k \in hits : \A j \in hits : k <= j
             IN  <<SubSeq(p, 1, i - 1)>> \o Split(SubSeq(p, i + 1, Len(p)))

\* os.path.normpath on the components of a relative path: drops "" and ".",
\* and lets ".." cancel the component before it (a leading ".." stays).
RECURSIVE NormComps(_, _)
NormComps(done, todo) ==
    IF todo = <<>> THEN done
    ELSE LET c == Head(todo)
         IN  IF c = <<>> \/ c = <<".">> THEN NormComps(done, Tail(todo))
             ELSE IF c = <<".", ".">> /\ done # <<>> /\ done[Len(done)] # <<".", ".">>
                  THEN NormComps(SubSeq(done, 1, Len(done) - 1), Tail(todo))
             ELSE NormComps(Append(done, c), Tail(todo))

normpath(p) == NormComps(<<>>, Split(p))

(***************************************************************************)
(* Program constants and the values requests are drawn from                *)
(***************************************************************************)
DOWNLOAD_DIR == <<"d", "o", "w", "n", "l", "o", "a", "d", "s">>

MP3 == <<".", "m", "p", "3">>
WEBM == <<".", "w", "e", "b", "m">>

\* The media item the downloader reports: title "My Clip", id "abc123".
Title == <<"M", "y", " ", "C", "l", "i", "p">>
VideoId == <<"a", "b", "c", "1", "2", "3">>
UNKNOWN_TITLE == <<"u", "n", "k", "n", "o", "w", "n", "_", "t", "i", "t", "l", "e">>
UNKNOWN_ID == <<"u", "n", "k", "n", "o", "w", "n", "_", "i", "d">>

\* A file of the working directory that is not an artifact: api.py itself.
ApiPy == <<"a", "p", "i", ".", "p", "y">>

\* outtmpl '%(title)s-%(id)s.%(ext)s' inside DOWNLOAD_DIR, for this item
OutputFile(ext) == join(DOWNLOAD_DIR, Title \o <<"-">> \o VideoId \o ext)

Url == <<"u">>

\* The literal "/downloads/" of the f-strings that build download_url
DownloadsUrl == <<"/", "d", "o", "w", "n", "l", "o", "a", "d", "s", "/">>

\* What the downloader can write: the output template with an extension chosen
\* by the downloader.
Exts == {MP3, WEBM}
Written == {{}} \cup {{OutputFile(e)} : e \in Exts}

\* Result metadata of extract_info: a mapping holding some of the keys
\* 'filepath', 'title', 'id'.
NoInfo == [keys |-> {}, filepath |-> <<>>, title |-> <<>>, id |-> <<>>]
Infos ==
    {[keys |-> {"title", "id"}, filepath |-> <<>>, title |-> Title, id |-> VideoId],
     [keys |-> {"id"}, filepath |-> <<>>, title |-> <<>>, id |-> VideoId]}
    \cup {[keys |-> {"title", "id", "filepath"}, filepath |-> OutputFile(e),
           title |-> Title, id |-> VideoId] : e \in Exts}

\* dict.get(key, default)
Get(i, key, default) == IF key \in i.keys THEN i[key] ELSE default

\* ydl.extract_info(url, download=True): raises DownloadError, raises another
\* exception, or returns metadata; in each case it may have written a file.
DownloaderOutcomes ==
    {[raises |-> e, info |-> NoInfo, written |-> w] :
        e \in {"DownloadError", "Exception"}, w \in Written}
    \cup {[raises |-> "none", info |-> i, written |-> w] : i \in Infos, w \in Written}

\* The value of the YTDLP_COOKIES environment variable as os.getenv returns it:
\* unset (None), a string the utf-8 codec encodes, or a string holding a lone
\* surrogate (os.getenv decodes undecodable bytes with surrogateescape).
CookieValues == {"unset", "encodable", "unencodable"}

Endpoints == {"mp3", "download-video", "health", "downloads"}

\* The query string of a download request: no url parameter, url=, url=u
Queries == {[given |-> FALSE, arg |-> <<>>], [given |-> TRUE, arg |-> <<>>],
            [given |-> TRUE, arg |-> Url]}

\* The path after /downloads/ of a file request
DotDot == <<".", ".">>
ServePaths ==
    {basename(OutputFile(MP3)),
     DotDot,
     DotDot \o <<"/">> \o ApiPy,
     DotDot \o <<"/">> \o OutputFile(MP3)}

Inputs(ep) ==
    CASE ep \in {"mp3", "download-video"} -> Queries
      [] ep = "health" -> {[given |-> FALSE, arg |-> <<>>]}
      [] ep = "downloads" -> {[given |-> TRUE, arg |-> p] : p \in ServePaths}

(***************************************************************************)
(* The filesystem                                                          *)
(***************************************************************************)
\* Directories that exist: the working directory, its ancestors, DOWNLOAD_DIR
\* (os.makedirs at import).
IsDir(n) == n = <<DOWNLOAD_DIR>> \/ \A k \in 1..Len(n) : n[k] = DotDot

IsFile(files, p) == normpath(p) \in {normpath(f) : f \in files}

\* os.path.exists
exists(files, p) == IsFile(files, p) \/ IsDir(normpath(p))

\* The names os.listdir(DOWNLOAD_DIR) returns, as a set
DirNames(files) ==
    {c[2] : c \in {n \in {normpath(f) : f \in files} : Len(n) = 2 /\ n[1] = DOWNLOAD_DIR}}

\* os.listdir returns the names in arbitrary order: every ordering of them.
listdir(files) ==
    LET names == DirNames(files)
        n == Cardinality(names)
    IN  {s \in [1..n -> names] : \A i, j \in 1..n : s[i] = s[j] => i = j}

(***************************************************************************)
(* State                                                                   *)
(***************************************************************************)
VARIABLES
    fs,             \* the regular files that exist, as paths relative to the cwd
    tmpfiles,       \* requests whose NamedTemporaryFile exists on disk
    YTDLP_COOKIES,  \* the environment variable
    pc,             \* where each request is
    request,        \* its endpoint and its url parameter / file path
    calls,          \* how many times extract_info ran for it
    staged,         \* whether a credential file was created for it
    info,           \* the metadata extract_info returned to it
    listed,         \* whether blocking_download called os.listdir
    listing,        \* what os.listdir returned
    result,         \* how blocking_download ended: a path or an exception
    responses       \* the HTTP responses sent for it

vars == <<fs, tmpfiles, YTDLP_COOKIES, pc, request, calls, staged, info, listed,
          listing, result, responses>>

NoRequest == [endpoint |-> "none", given |-> FALSE, arg |-> <<>>]
NoResult == [kind |-> "none", path |-> <<>>]

Response(st, det, url, file) ==
    [status |-> st, detail |-> det, download_url |-> url, file |-> file]

\* The process has just started: no request yet, no credential file.
Started ==
    /\ tmpfiles = {}
    /\ YTDLP_COOKIES \in CookieValues
    /\ pc = [r \in Req |-> "idle"]
    /\ request = [r \in Req |-> NoRequest]
    /\ calls = [r \in Req |-> 0]
    /\ staged = [r \in Req |-> FALSE]
    /\ info = [r \in Req |-> NoInfo]
    /\ listed = [r \in Req |-> FALSE]
    /\ listing = [r \in Req |-> <<>>]
    /\ result = [r \in Req |-> NoResult]
    /\ responses = [r \in Req |-> <<>>]

\* First start: os.makedirs has just created an empty DOWNLOAD_DIR.
Init == fs = {ApiPy} /\ Started

\* A restart: os.makedirs(exist_ok=True) keeps the artifacts of earlier runs.
ServeInit == fs \in {{ApiPy} \cup w : w \in Written} /\ Started

(***************************************************************************)
(* The event loop                                                          *)
(***************************************************************************)
\* Whether blocking_download runs on the event loop's own thread: the code
\* hands it to asyncio.to_thread, so it does not.
InlineDownload == TRUE
DownloadOnLoopThread == FALSE

\* The loop can run a handler or resume a coroutine unless its thread is inside
\* a blocking call.
LoopFree == ~(DownloadOnLoopThread /\ \E r \in Req : pc[r] = "waiting")

\* A request reaches the server; requests are numbered in order of arrival.
Arrive(r, ep, q) ==
    /\ pc[r] = "idle"
    /\ \A k \in Req : k < r => pc[k] # "idle"
    /\ pc' = [pc EXCEPT ![r] = "arrived"]
    /\ request' = [request EXCEPT ![r] = [endpoint |-> ep, given |-> q.given, arg |-> q.arg]]
    /\ UNCHANGED <<fs, tmpfiles, YTDLP_COOKIES, calls, staged, info, listed, listing,
                   result, responses>>

(***************************************************************************)
(* /health                                                                 *)
(***************************************************************************)
health_check(r) ==
    /\ LoopFree
    /\ pc[r] = "arrived"
    /\ request[r].endpoint = "health"
    /\ pc' = [pc EXCEPT ![r] = "done"]
    /\ responses' = [responses EXCEPT ![r] = Append(@, Response(200, "ok", <<>>, <<>>))]
    /\ UNCHANGED <<fs, tmpfiles, YTDLP_COOKIES, request, calls, staged, info, listed,
                   listing, result>>

(***************************************************************************)
(* /mp3 and /download-video                                                *)
(***************************************************************************)
\* The status a download request is refused with before the pipeline runs, 0
\* when it is not refused.  The handlers declare `url: str` with no default, so
\* FastAPI answers a request without the parameter 422 without calling the
\* handler; the handler's `if not url` answers an empty one 400.
Refusal(q) ==
    IF ~q.given THEN 422
    ELSE IF q.arg = <<>> THEN 400
    ELSE 0

\* The except clauses of both endpoints.
StatusAllErrors500(kind) == 500
ErrorStatus(kind) == IF kind = "DownloadError" THEN 400 ELSE 500

ErrorDetail(kind) == IF kind = "DownloadError" THEN "download_error" ELSE "unexpected"

\* The handler up to its await: validation, then run_yt_dlp_operation up to
\* asyncio.to_thread.  The credential file is created (delete=False) and the
\* cookie string written inside the with block, which precedes the try/finally:
\* a write that raises leaves the handler through the endpoint's except clause
\* with the file still on disk.
start_download(r) ==
    /\ LoopFree
    /\ pc[r] = "arrived"
    /\ request[r].endpoint \in {"mp3", "download-video"}
    /\ IF Refusal(request[r]) # 0
       THEN /\ pc' = [pc EXCEPT ![r] = "done"]
            /\ responses' = [responses EXCEPT ![r] =
                   Append(@, Response(Refusal(request[r]), "required", <<>>, <<>>))]
            /\ UNCHANGED <<tmpfiles, staged, result>>
       ELSE /\ tmpfiles' = tmpfiles \cup {r}
            /\ staged' = [staged EXCEPT ![r] = TRUE]
            /\ IF YTDLP_COOKIES = "unencodable"
               THEN /\ pc' = [pc EXCEPT ![r] = "done"]
                    /\ result' = [result EXCEPT ![r] = [kind |-> "Exception", path |-> <<>>]]
                    /\ responses' = [responses EXCEPT ![r] =
                           Append(@, Response(ErrorStatus("Exception"),
                                              ErrorDetail("Exception"), <<>>, <<>>))]
               ELSE /\ pc' = [pc EXCEPT ![r] = "waiting"]
                    /\ UNCHANGED <<result, responses>>
    /\ UNCHANGED <<fs, YTDLP_COOKIES, request, calls, info, listed, listing>>

\* found_files: the names of the listing that start with the prefix, in
\* listing order.
FoundFilesMp3Only(names, prefix) ==
    SelectSeq(names, LAMBDA f : StartsWith(f, prefix) /\ EndsWith(f, MP3))
FoundFilesExact(names, prefix) == SelectSeq(names, LAMBDA f : f = prefix)
FoundFiles(names, prefix) == SelectSeq(names, LAMBDA f : StartsWith(f, prefix))

\* Whether the resolver takes the metadata's path: `if not final_filepath`
NeverDirect(i) == FALSE
HasDirectPath(i) == Get(i, "filepath", <<>>) # <<>>

\* The part of blocking_download after extract_info has returned metadata i,
\* with `names` what os.listdir returns if it is called.
Resolve(i, names) ==
    IF HasDirectPath(i)
    THEN [kind |-> "path", path |-> Get(i, "filepath", <<>>), listed |-> FALSE,
          listing |-> <<>>]
    ELSE LET prefix == Get(i, "title", UNKNOWN_TITLE) \o <<"-">> \o Get(i, "id", UNKNOWN_ID)
             found_files == FoundFiles(names, prefix)
         IN  IF found_files # <<>>
             THEN [kind |-> "path", path |-> join(DOWNLOAD_DIR, found_files[1]),
                   listed |-> TRUE, listing |-> names]
             ELSE [kind |-> "NotFound", path |-> <<>>, listed |-> TRUE, listing |-> names]

\* blocking_download on its worker thread: extract_info, which may take for
\* ever, then the resolution of the artifact's path.  Other requests' files
\* only ever get added, so running the two as one step loses no outcome.
blocking_download(r) ==
    /\ pc[r] = "waiting"
    /\ \E o \in DownloaderOutcomes :
         /\ fs' = fs \cup o.written
         /\ calls' = [calls EXCEPT ![r] = @ + 1]
         /\ info' = [info EXCEPT ![r] = o.info]
         /\ IF o.raises # "none"
            THEN /\ result' = [result EXCEPT ![r] = [kind |-> o.raises, path |-> <<>>]]
                 /\ UNCHANGED <<listed, listing>>
            ELSE \E names \in listdir(fs') :
                   LET res == Resolve(o.info, names)
                   IN  /\ result' = [result EXCEPT ![r] = [kind |-> res.kind, path |-> res.path]]
                       /\ listed' = [listed EXCEPT ![r] = res.listed]
                       /\ listing' = [listing EXCEPT ![r] = res.listing]
    /\ pc' = [pc EXCEPT ![r] = "returned"]
    /\ UNCHANGED <<tmpfiles, YTDLP_COOKIES, request, staged, responses>>

\* download_mp3 after run_yt_dlp_operation returned `path`: the path the
\* endpoint publishes, <<>> when it raises "MP3 file not found".
Mp3PathNoCheck(files, path) ==
    IF EndsWith(path, MP3) THEN path ELSE splitext_root(path) \o MP3
Mp3Path(files, path) ==
    IF EndsWith(path, MP3) THEN path
    ELSE LET potential_mp3_path == splitext_root(path) \o MP3
         IN  IF exists(files, potential_mp3_path) THEN potential_mp3_path ELSE <<>>

\* The response of an endpoint once blocking_download has ended with res.
\* download_video's `if not video_filepath` raises an HTTPException(500) inside
\* the try, which `except Exception` turns into the 500 of any other failure.
EndpointResponse(ep, files, res) ==
    IF res.kind # "path"
    THEN Response(ErrorStatus(res.kind), ErrorDetail(res.kind), <<>>, <<>>)
    ELSE LET filepath == IF ep = "mp3" THEN Mp3Path(files, res.path) ELSE res.path
         IN  IF filepath = <<>>
             THEN Response(ErrorStatus("Exception"), ErrorDetail("Exception"), <<>>, <<>>)
             ELSE Response(200, "success", DownloadsUrl \o basename(filepath), <<>>)

\* The coroutine resumes on the event loop: the finally clause removes the
\* credential file, then the endpoint builds its response.  The worker's locals
\* (info, the listing) are gone once its result has been taken.
finish_download(r) ==
    /\ LoopFree
    /\ pc[r] = "returned"
    /\ tmpfiles' = tmpfiles \ {r}
    /\ responses' = [responses EXCEPT ![r] =
           Append(@, EndpointResponse(request[r].endpoint, fs, result[r]))]
    /\ pc' = [pc EXCEPT ![r] = "done"]
    /\ info' = [info EXCEPT ![r] = NoInfo]
    /\ listed' = [listed EXCEPT ![r] = FALSE]
    /\ listing' = [listing EXCEPT ![r] = <<>>]
    /\ UNCHANGED <<fs, YTDLP_COOKIES, request, calls, staged, result>>

(***************************************************************************)
(* /downloads/...                                                          *)
(***************************************************************************)
\* The routes that match /downloads/..., in the order they are registered:
\* app.mount("/downloads", StaticFiles) comes before the
\* @app.get('/downloads/{filename}') handler, and the router takes the first
\* route that matches.
RoutesHandlerFirst == <<"serve_downloaded_file", "StaticFiles">>
Routes == <<"StaticFiles", "serve_downloaded_file">>

\* A mount matches every path under it; a {filename} parameter matches one
\* non-empty path segment.
Matches(route, path) ==
    IF route = "StaticFiles" THEN TRUE
    ELSE path # <<>> /\ \A k \in 1..Len(path) : path[k] # "/"

Dispatch(path) ==
    LET hits == {k \in 1..Len(Routes) : Matches(Routes[k], path)}
    IN  Routes[CHOOSE k \in hits : \A j \in hits : k <= j]

\* StaticFiles(directory=DOWNLOAD_DIR): the path is joined to the directory and
\* resolved; a result outside the directory, or one that is no regular file, is
\* answered 404.
StaticFilesResponse(files, path) ==
    LET full_path == normpath(join(DOWNLOAD_DIR, path))
    IN  IF /\ Len(full_path) > 1
           /\ full_path[1] = DOWNLOAD_DIR
           /\ full_path \in {normpath(f) : f \in files}
        THEN Response(200, "file", <<>>, full_path)
        ELSE Response(404, "not_found", <<>>, <<>>)

\* serve_downloaded_file: 404 unless the joined path exists, then a
\* FileResponse, which fails (500) when the path is no regular file.
ServeDownloadedFileResponse(files, filename) ==
    LET file_path == join(DOWNLOAD_DIR, filename)
    IN  IF ~exists(files, file_path) THEN Response(404, "not_found", <<>>, <<>>)
        ELSE IF IsFile(files, file_path) THEN Response(200, "file", <<>>, normpath(file_path))
        ELSE Response(500, "not_a_file", <<>>, <<>>)

serve_downloads(r) ==
    /\ LoopFree
    /\ pc[r] = "arrived"
    /\ request[r].endpoint = "downloads"
    /\ responses' = [responses EXCEPT ![r] = Append(@,
           IF Dispatch(request[r].arg) = "StaticFiles"
           THEN StaticFilesResponse(fs, request[r].arg)
           ELSE ServeDownloadedFileResponse(fs, request[r].arg))]
    /\ pc' = [pc EXCEPT ![r] = "done"]
    /\ UNCHANGED <<fs, tmpfiles, YTDLP_COOKIES, request, calls, staged, info, listed,
                   listing, result>>

(***************************************************************************)
(* Specification                                                           *)
(***************************************************************************)
\* The download endpoints alone.
DownloadStep(r) ==
    \/ start_download(r)
    \/ blocking_download(r)
    \/ finish_download(r)

Next ==
    \E r \in Req :
        \/ \E ep \in {"mp3", "download-video"} : \E q \in Inputs(ep) : Arrive(r, ep, q)
        \/ DownloadStep(r)

Spec == Init /\ [][Next]_vars

\* File requests, with downloads filling the artifact directory.
ServeNext ==
    \E r \in Req :
        \/ \E q \in Inputs("downloads") : Arrive(r, "downloads", q)
        \/ Arrive(r, "download-video", [given |-> TRUE, arg |-> Url])
        \/ DownloadStep(r)
        \/ serve_downloads(r)

ServeSpec == ServeInit /\ [][ServeNext]_vars

\* Health checks beside downloads.  The event loop runs a ready handler;
\* nothing makes the downloader return.
HealthNext ==
    \E r \in Req :
        \/ Arrive(r, "health", [given |-> FALSE, arg |-> <<>>])
        \/ Arrive(r, "mp3", [given |-> TRUE, arg |-> Url])
        \/ DownloadStep(r)
        \/ health_check(r)

HealthSpec == Init /\ [][HealthNext]_vars /\ \A r \in Req : WF_vars(health_check(r))

(***************************************************************************)
(* Properties                                                              *)
(***************************************************************************)
IsDownload(r) == request[r].endpoint \in {"mp3", "download-video"}

\* The response of a finished request
Resp(r) == responses[r][1]

\* "downloads/My Clip-abc123.mp3" and its public URL, spelled out
ExamplePath ==
    <<"d", "o", "w", "n", "l", "o", "a", "d", "s", "/",
      "M", "y", " ", "C", "l", "i", "p", "-", "a", "b", "c", "1", "2", "3", ".", "m", "p", "3">>
ExampleUrl == <<"/">> \o ExamplePath

\* C1: a request to /mp3 or /download-video whose url parameter is empty or
\* missing is answered 400, and the downloader is not invoked for it: no
\* credential file is staged and extract_info is not called.
C1_EmptyOrMissingUrlIs400 ==
    \A r \in Req :
        (IsDownload(r) /\ pc[r] = "done" /\ (~request[r].given \/ request[r].arg = <<>>))
        => /\ Len(responses[r]) = 1
           /\ Resp(r).status = 400
           /\ calls[r] = 0
           /\ ~staged[r]

\* C2: the credential file of a request does not exist before the request
\* starts nor once the request has finished, however run_yt_dlp_operation
\* exits.
C2_CredentialFileGoneAfterRequest ==
    \A r \in Req : pc[r] \in {"idle", "arrived", "done"} => r \notin tmpfiles

\* C3: for a download endpoint and a non-empty url, the downloader is invoked
\* at most once, and a failure becomes exactly one HTTP error response: 400
\* for a DownloadError, 500 for any other exception, the artifact-resolution
\* failure and the missing-.mp3 failure included.
C3_FailuresTranslatedOnce ==
    \A r \in Req :
        (IsDownload(r) /\ request[r].given /\ request[r].arg # <<>>)
        => /\ calls[r] <= 1
           /\ Len(responses[r]) = (IF pc[r] = "done" THEN 1 ELSE 0)
           /\ pc[r] = "done" =>
                /\ result[r].kind = "DownloadError" => Resp(r).status = 400
                /\ result[r].kind \in {"NotFound", "Exception"} => Resp(r).status = 500
                /\ result[r].kind = "path" => Resp(r).status \in {200, 500}

C3_Witness ==
    \E r1, r2 \in Req :
        /\ pc[r1] = "done" /\ result[r1].kind = "DownloadError"
        /\ Resp(r1).status = 400 /\ calls[r1] = 1
        /\ pc[r2] = "done" /\ result[r2].kind = "NotFound"
        /\ Resp(r2).status = 500 /\ calls[r2] = 1

\* C4: when the metadata holds a non-empty direct file path, the resolver
\* returns exactly that path and does not list the artifact directory.
C4_DirectPathReturnedUnchanged ==
    \A r \in Req :
        (pc[r] = "returned" /\ "filepath" \in info[r].keys /\ info[r].filepath # <<>>)
        => /\ result[r] = [kind |-> "path", path |-> info[r].filepath]
           /\ ~listed[r]
           /\ listing[r] = <<>>

\* The direct path is returned although the directory holds another file with
\* the prefix and not the file the path names.
C4_Witness ==
    \E r \in Req :
        /\ pc[r] = "returned"
        /\ info[r].filepath = ExamplePath
        /\ result[r].path = ExamplePath
        /\ ExamplePath \notin fs
        /\ DirNames(fs) # {}

\* The indices of a listing whose names start with title-id
PrefixHits(names, i) ==
    {k \in 1..Len(names) : StartsWith(names[k], i.title \o <<"-">> \o i.id)}

\* C5: with no direct path in the metadata, exactly one file of the listing
\* starting with '{title}-{identifier}' makes the resolver return that file's
\* path inside the artifact directory, and no such file makes it fail with
\* the artifact-not-found error; for title 'My Clip', id 'abc123' and the
\* file 'My Clip-abc123.mp3' the download_url is
\* '/downloads/My Clip-abc123.mp3'.
C5_ScanResolvesUniqueMatch ==
    \A r \in Req :
        /\ (pc[r] = "returned" /\ info[r].keys = {"title", "id"})
           => LET hits == PrefixHits(listing[r], info[r])
              IN  /\ listed[r]
                  /\ hits = {} => result[r].kind = "NotFound"
                  /\ Cardinality(hits) = 1 =>
                       \A k \in hits :
                           result[r] = [kind |-> "path",
                                        path |-> DOWNLOAD_DIR \o <<"/">> \o listing[r][k]]
        /\ (pc[r] = "done" /\ IsDownload(r) /\ result[r].kind = "path"
            /\ result[r].path = ExamplePath)
           => Resp(r).status = 200 /\ Resp(r).download_url = ExampleUrl

C5_Witness ==
    \E r1, r2 \in Req :
        /\ pc[r1] = "returned" /\ info[r1].keys = {"title", "id"}
        /\ listing[r1] = <<basename(ExamplePath)>>
        /\ result[r1].path = ExamplePath
        /\ pc[r2] = "returned" /\ info[r2].keys = {"title", "id"}
        /\ listing[r2] = <<>>
        /\ result[r2].kind = "NotFound"

\* C6: on /mp3, when the resolved path does not end in '.mp3', the endpoint
\* succeeds with the sibling (the path with its extension replaced by '.mp3')
\* if that file exists and fails with 500 if it does not; so every success
\* response of /mp3 has a download_url ending in '.mp3'.
C6_Mp3SiblingFallback ==
    /\ [](\A r \in Req :
            (request[r].endpoint = "mp3" /\ pc[r] = "done" /\ Resp(r).status = 200)
            => EndsWith(Resp(r).download_url, MP3))
    /\ [][\A r \in Req :
            (/\ request[r].endpoint = "mp3"
             /\ pc[r] = "returned" /\ pc'[r] = "done"
             /\ result[r].kind = "path"
             /\ ~EndsWith(result[r].path, MP3))
            => LET sibling == splitext_root(result[r].path) \o MP3
               IN  IF sibling \in fs
                   THEN /\ responses'[r][1].status = 200
                        /\ responses'[r][1].download_url = DownloadsUrl \o basename(sibling)
                   ELSE responses'[r][1].status = 500]_vars

C6_Witness ==
    \E r1, r2 \in Req :
        /\ request[r1].endpoint = "mp3" /\ pc[r1] = "done"
        /\ result[r1].path = OutputFile(WEBM)
        /\ Resp(r1).status = 500
        /\ request[r2].endpoint = "mp3" /\ pc[r2] = "done"
        /\ result[r2].path = OutputFile(WEBM)
        /\ Resp(r2).status = 200
        /\ Resp(r2).download_url = ExampleUrl

\* Whether a /downloads path is one plain file name
PlainName(path) == path # DotDot /\ \A k \in 1..Len(path) : path[k] # "/"

\* C7: GET /downloads/{filename}, for every filename, '..' and path
\* separators included, is answered 404 or with a file that lies inside the
\* artifact directory, under that name when the name is a plain file name; a
\* plain name present in the directory is served.
C7_ServedFileInsideArtifactDir ==
    /\ [](\A r \in Req :
            (request[r].endpoint = "downloads" /\ pc[r] = "done")
            => /\ Len(responses[r]) = 1
               /\ Resp(r).status \in {200, 404}
               /\ Resp(r).status = 200 =>
                    /\ Len(Resp(r).file) = 2
                    /\ Resp(r).file[1] = DOWNLOAD_DIR
                    /\ (DOWNLOAD_DIR \o <<"/">> \o Resp(r).file[2]) \in fs
                    /\ PlainName(request[r].arg) => Resp(r).file[2] = request[r].arg)
    /\ [][\A r \in Req :
            (/\ request[r].endpoint = "downloads"
             /\ pc[r] = "arrived" /\ pc'[r] = "done"
             /\ PlainName(request[r].arg))
            => (responses'[r][1].status = 200
                <=> (DOWNLOAD_DIR \o <<"/">> \o request[r].arg) \in fs)]_vars

\* A file outside the directory is asked for through '..' and refused although
\* it exists, while an artifact is served.
C7_Witness ==
    \E r1, r2 \in Req :
        /\ pc[r1] = "done" /\ request[r1].arg = DotDot \o <<"/">> \o ApiPy
        /\ ApiPy \in fs
        /\ Resp(r1).status = 404
        /\ pc[r2] = "done" /\ request[r2].arg = basename(ExamplePath)
        /\ Resp(r2).status = 200

\* C8: a /health request that arrives while download requests wait for their
\* blocking downloader call is eventually answered with the constant success
\* payload, whether or not any download ever returns, and answering it changes
\* neither the artifact directory nor any credential file.
C8_HealthAnsweredWhileDownloadsWait ==
    /\ \A r \in Req :
         (pc[r] = "arrived" /\ request[r].endpoint = "health")
         ~> (pc[r] = "done" /\ responses[r] = <<Response(200, "ok", <<>>, <<>>)>>)
    /\ [][\A r \in Req :
            (request[r].endpoint = "health" /\ pc[r] = "arrived" /\ pc'[r] = "done")
            => (fs' = fs /\ tmpfiles' = tmpfiles)]_vars

C8_Witness ==
    \E r1, r2 \in Req :
        /\ pc[r1] = "waiting"
        /\ request[r2].endpoint = "health" /\ pc[r2] = "done"
        /\ Resp(r2).status = 200

\* C9, as the specification words it: the scan of an /mp3 request only ever selects a file whose
\* name ends in '.mp3'.
C9_Mp3ScanSelectsOnlyMp3 ==
    \A r \in Req :
        (request[r].endpoint = "mp3" /\ pc[r] = "returned" /\ listed[r]
         /\ result[r].kind = "path")
        => EndsWith(result[r].path, MP3)

\* C9: in the directory scan, for both endpoints, the candidates are the files
\* whose name starts with the '{title}-{identifier}' prefix (the defaults
\* standing in for a missing title or id), whatever their extension, and the
\* first candidate in listing order is selected.
C9_ScanSelectsFirstPrefixMatch ==
    \A r \in Req :
        (pc[r] = "returned" /\ listed[r])
        => LET i == info[r]
               t == IF "title" \in i.keys THEN i.title ELSE UNKNOWN_TITLE
               v == IF "id" \in i.keys THEN i.id ELSE UNKNOWN_ID
               hits == {k \in 1..Len(listing[r]) :
                           StartsWith(listing[r][k], t \o <<"-">> \o v)}
           IN  IF hits = {} THEN result[r].kind = "NotFound"
               ELSE \E k \in hits :
                      /\ \A j \in hits : k <= j
                      /\ result[r] = [kind |-> "path",
                                      path |-> DOWNLOAD_DIR \o <<"/">> \o listing[r][k]]

\* An /mp3 request's scan selects the .webm file listed before the .mp3 file.
C9_Witness ==
    \E r \in Req :
        /\ request[r].endpoint = "mp3" /\ pc[r] = "returned" /\ listed[r]
        /\ Len(listing[r]) = 2
        /\ listing[r][2] = basename(ExamplePath)
        /\ result[r].path = OutputFile(WEBM)

\* C10: a success response of /mp3 or /download-video carries a download_url
\* that is '/downloads/' followed by the name of a file of the artifact
\* directory.
C10_SuccessUrlNamesExistingArtifact ==
    \A r \in Req :
        (IsDownload(r) /\ pc[r] = "done" /\ Resp(r).status = 200)
        => \E name \in DirNames(fs) : Resp(r).download_url = DownloadsUrl \o name

====
